---- MODULE Spec2Model ----
(***************************************************************************)
(* Model of server/dataviz_server/dispatcher.py: the Dispatcher WSGI       *)
(* middleware that routes a request to a Dash application selected by the  *)
(* first path segment, building it from MongoDB on demand and keeping it   *)
(* in self.instances for a retention period.                               *)
(*                                                                         *)
(* A path (PATH_INFO) is a sequence of one-character strings.  Time is     *)
(* counted in minutes.                                                     *)
(***************************************************************************)
EXTENDS Integers, Sequences, FiniteSets, Bags, TLC

\* ------------------------------------------------------------------ bounds
\* the last minute of the clock, the number of applications built, and the
\* value RETENTION_PERIOD_MIN is set to in the environment
MaxTime == 2
MaxBuilds == 2
RetentionMin == 1
\* the number of requests handled at the same time
NThreads == 2

\* ------------------------------------------------------- string functions
\* str.lstrip("/")
RECURSIVE LStrip(_)
LStrip(s) ==
    IF s # <<>> /\ Head(s) = "/" THEN LStrip(Tail(s)) ELSE s

\* str.find("/") as a 1-based index, 0 when absent
RECURSIVE FindSlash(_, _)
FindSlash(s, i) ==
    IF i > Len(s) THEN 0
    ELSE IF s[i] = "/" THEN i
    ELSE FindSlash(s, i + 1)

\* str.rfind("/") as a 1-based index, 0 when absent
RECURSIVE RFindSlash(_, _)
RFindSlash(s, i) ==
    IF i = 0 THEN 0
    ELSE IF s[i] = "/" THEN i
    ELSE RFindSlash(s, i - 1)

\* str.split("/", 1)
Split1(s) ==
    LET k == FindSlash(s, 1)
    IN  IF k = 0 THEN <<s>>
        ELSE <<SubSeq(s, 1, k - 1), SubSeq(s, k + 1, Len(s))>>

\* str.rsplit("/", 1)
RSplit1(s) ==
    LET k == RFindSlash(s, Len(s))
    IN  IF k = 0 THEN <<s>>
        ELSE <<SubSeq(s, 1, k - 1), SubSeq(s, k + 1, Len(s))>>

\* str.rsplit("/", 2)
RSplit2(s) ==
    LET one == RSplit1(s)
    IN  IF Len(one) = 1 THEN one
        ELSE RSplit1(one[1]) \o <<one[2]>>

\* ------------------------------------------------------------- werkzeug
\* peek_path_info(environ): first segment of PATH_INFO, leading slashes skipped
peek_path_info(path) == Split1(LStrip(path))[1]

\* get_path_info(environ): PATH_INFO as it is
get_path_info(path) == path

\* a pop that splits at the first slash without skipping the leading ones
pop_path_info_NoStrip(path) ==
    IF path = <<>> THEN path
    ELSE LET parts == Split1(path)
         IN  IF Len(parts) = 1 THEN <<>>
             ELSE <<"/">> \o parts[2]

\* pop_path_info(environ): the new PATH_INFO
pop_path_info(path) ==
    IF path = <<>> THEN path
    ELSE LET parts == Split1(LStrip(path))
         IN  IF Len(parts) = 1 THEN <<>>
             ELSE <<"/">> \o parts[2]

\* ------------------------------------------------------ identifier check
\* the character class [a-zA-Z0-9_-] restricted to the characters in use
AllowedChars == {"a", "p", "i", "d", "e", "x", "y", "_", "-", "0"}

AllAllowed(s) == \A k \in 1..Len(s) : s[k] \in AllowedChars

\* a pattern that accepts any non-empty segment
name_pattern_Any(name) == name # <<>>

\* re.match(name_pattern, name) with '^[a-zA-Z0-9_-]+$': '$' matches at the
\* end of the string and also just before a newline that ends the string
name_pattern(name) ==
    \/ name # <<>> /\ AllAllowed(name)
    \/ /\ Len(name) >= 2
       /\ name[Len(name)] = "\n"
       /\ AllAllowed(SubSeq(name, 1, Len(name) - 1))

\* ------------------------------------------------------------- handlers
ApiName == <<"a", "p", "i">>

\* a WSGI application: kind says which one, serial tells built instances apart
App(kind, uid, defn, serial) ==
    [kind |-> kind, uid |-> uid, defn |-> defn, serial |-> serial]

None == App("None", <<>>, "none", 0)
default_app == App("NotFound", <<>>, "none", 0)
BadRequest == App("BadRequest", <<>>, "none", 0)
api == App("api", ApiName, "none", 0)

retention_period == RetentionMin

\* --------------------------------------------------------------- inputs
Tenant1 == <<"d">>
Tenant2 == <<"e">>

\* the uids the collection may hold a record for, and what a record may be:
\* none, one without 'dashapp', one with it.  The record of Tenant2 is there
\* from the start and stays; the others are written while the server runs.
StoreKeys == {ApiName, Tenant1, Tenant2}
WrittenKeys == {ApiName, Tenant1}
StoreVals(k) ==
    IF k = Tenant1 THEN {"none", "nodashapp", "v1"} ELSE {"none", "v1"}

\* PATH_INFO of the requests
Sl == <<"/">>
Paths ==
    { <<>>, Sl,
      Sl \o ApiName, Sl \o ApiName \o Sl \o <<"x">>,
      Sl \o <<"?">>, Sl \o <<"?">> \o Sl \o <<"x">>,
      Sl \o <<"d", "\n">>,
      Sl \o Tenant1, Sl \o Tenant1 \o Sl,
      Sl \o Tenant1 \o Sl \o <<"x">>,
      Sl \o Tenant1 \o Sl \o <<"x">> \o Sl,
      Sl \o Tenant1 \o Sl \o <<"x">> \o Sl \o <<"y">>,
      Sl \o Sl \o Tenant1,
      Sl \o Tenant2, Sl \o Tenant2 \o Sl \o <<"x">> \o Sl }

\* what can go wrong while a request is handled: nothing, find_one raising
\* PyMongoError, dashapp_deserializer raising
Faults == {"ok", "db", "build"}

\* the characters and the length of the paths the two path tests are tried on
ProbeChars == {"/", "d", "\n", "?"}
MaxLen == 5
ProbePaths == UNION {[1..n -> ProbeChars] : n \in 0..MaxLen}

\* the PATH_INFO of the requests that WSGI server threads handle at the same
\* time
ConcPaths ==
    { Sl \o Tenant1, Sl \o Tenant2, Sl \o Tenant2 \o Sl \o <<"x">> }

\* instances, store, now: the cache, the collection and the clock; nbuilds
\* counts the applications built; last is the last request handled alone;
\* probe is a path with the verdict of one of the path tests on it; threads
\* is the bag of the requests that threads are handling, each with its place
\* and its locals
VARIABLES instances, store, now, nbuilds, last, probe, threads

vars == <<instances, store, now, nbuilds, last, probe, threads>>

\* ------------------------------------------------------------ Dispatcher
\* self.mongo_collection.find_one({'uid': viz_uid}): "error" stands for a
\* raised PyMongoError
find_one(st, viz_uid, fault) ==
    IF fault = "db" THEN "error"
    ELSE IF viz_uid \in DOMAIN st THEN st[viz_uid]
    ELSE "none"

\* the test for the 'dashapp' key left out
no_dashapp_OnlyNone(res) == res = "none"

\* (not res) or ('dashapp' not in res)
no_dashapp(res) == res = "none" \/ res = "nodashapp"

\* a failure of dashapp_deserializer caught and turned into None
get_app_from_db_Swallow(st, viz_uid, fault, serial) ==
    LET res == find_one(st, viz_uid, fault)
    IN  IF res = "error"
        THEN [app |-> None, exc |-> "UnboundLocalError", built |-> 0]
        ELSE IF no_dashapp(res) \/ fault = "build"
        THEN [app |-> None, exc |-> "none", built |-> 0]
        ELSE [app |-> App("dash", viz_uid, <<viz_uid, res>>, serial),
              exc |-> "none", built |-> 1]

\* Dispatcher.__get_app_from_db: the application (None for a Python None)
\* and the exception that left the method, "none" when it returned.  After
\* a PyMongoError the except clause only logs, so 'res' is unbound and the
\* test on it raises UnboundLocalError; dashapp_deserializer may raise too.
get_app_from_db(st, viz_uid, fault, serial) ==
    LET res == find_one(st, viz_uid, fault)
    IN  IF res = "error"
        THEN [app |-> None, exc |-> "UnboundLocalError", built |-> 0]
        ELSE IF no_dashapp(res)
        THEN [app |-> None, exc |-> "none", built |-> 0]
        ELSE IF fault = "build"
        THEN [app |-> None, exc |-> "DeserializerError", built |-> 0]
        ELSE [app |-> App("dash", viz_uid, <<viz_uid, res>>, serial),
              exc |-> "none", built |-> 1]

\* Dispatcher.__is_main_page
is_main_page(path) ==
    LET splitted == RSplit2(get_path_info(path))
    IN  \/ Len(splitted) = 2
        \/ Len(splitted) = 3 /\ splitted[3] = <<>>

\* the whole cache dropped instead of one entry
DelInstance_Clear(inst, name) == << >>

\* del self.instances[name]
DelInstance(inst, name) == [k \in DOMAIN inst \ {name} |-> inst[k]]

\* an assignment that keeps an entry that is already there
SetInstance_KeepFirst(inst, name, instance) ==
    IF name \in DOMAIN inst THEN inst
    ELSE [k \in DOMAIN inst \cup {name} |->
             IF k = name THEN instance ELSE inst[k]]

\* the assignment left out
SetInstance_Skipped(inst, name, instance) == inst

\* self.instances[name] = instance
SetInstance(inst, name, instance) ==
    [k \in DOMAIN inst \cup {name} |-> IF k = name THEN instance ELSE inst[k]]

\* the reserved name not recognised
is_api_Never(name) == FALSE

\* name == 'api'
is_api(name) == name = ApiName

\* the age test of get_application on a cached instance
Expired(instance, path, t) ==
    is_main_page(path) /\ (t - instance.added) > retention_period

\* what get_application leaves behind: the application it returns (None for
\* a Python None), the cache, the exception that left it ("none" when it
\* returned), and what it did on the way: the name tested against the
\* pattern, the instance found in the cache and deleted as expired, the
\* number of find_one calls and of applications built
Outcome(app, inst, exc, validated, cached, expired, lookups, built) ==
    [app |-> app, instances |-> inst, exc |-> exc,
     validated |-> validated, cached |-> cached, expired |-> expired,
     lookups |-> lookups, built |-> built]

\* Dispatcher.get_application; t1 and t2 are the two readings of utcnow()
get_application(inst, st, path, t1, t2, fault, serial) ==
    LET name == peek_path_info(path)
    IN  IF name = <<>>
        THEN Outcome(None, inst, "none", FALSE, FALSE, FALSE, 0, 0)
        ELSE IF is_api(name)
        THEN Outcome(api, inst, "none", FALSE, FALSE, FALSE, 0, 0)
        ELSE IF ~name_pattern(name)
        THEN Outcome(BadRequest, inst, "none", TRUE, FALSE, FALSE, 0, 0)
        ELSE
          LET cached == name \in DOMAIN inst
              expired == cached /\ Expired(inst[name], path, t1)
              inst1 == IF expired THEN DelInstance(inst, name) ELSE inst
          IN  IF name \notin DOMAIN inst1
              THEN LET got == get_app_from_db(st, name, fault, serial)
                   IN  IF got.exc # "none"
                       THEN Outcome(None, inst1, got.exc, TRUE, cached,
                                    expired, 1, 0)
                       ELSE IF got.app # None
                       THEN Outcome(got.app,
                                    SetInstance(inst1, name,
                                        [app |-> got.app, added |-> t2]),
                                    "none", TRUE, cached, expired, 1,
                                    got.built)
                       ELSE Outcome(None, inst1, "none", TRUE, cached,
                                    expired, 1, 0)
              ELSE Outcome(inst1[name].app, inst1, "none", TRUE, cached,
                           expired, 0, 0)

\* Dispatcher.__call__: what get_application left behind, with the
\* application that answers and the PATH_INFO it is called with (seen); an
\* exception of get_application leaves __call__ before any application runs
Dispatcher_call(inst, st, path, t1, t2, fault, serial) ==
    LET got == get_application(inst, st, path, t1, t2, fault, serial)
    IN  IF got.exc # "none"
        THEN got @@ [seen |-> path]
        ELSE IF got.app # None
        THEN got @@ [seen |-> pop_path_info(path)]
        ELSE [got EXCEPT !.app = default_app] @@ [seen |-> path]

\* ---------------------------------------------------------------- system
\* the last request: its PATH_INFO, the time it started, and its outcome
\* without the cache, which is the variable instances
Last(path, t1, r) ==
    [path |-> path, t1 |-> t1, app |-> r.app, seen |-> r.seen,
     exc |-> r.exc, validated |-> r.validated, cached |-> r.cached,
     expired |-> r.expired, lookups |-> r.lookups, built |-> r.built]

\* the local variable 'instance' holding None
NoInstance == [app |-> None, added |-> 0]

\* a thread: where it is in get_application (pc), the PATH_INFO of its
\* request, the local 'instance', whether line 78 found an instance and
\* line 83 found it expired
Thread(pc, path, instance, cached, expired) ==
    [pc |-> pc, path |-> path, instance |-> instance, cached |-> cached,
     expired |-> expired]

\* no path test tried
NoProbe == [input |-> <<>>, test |-> "none", verdict |-> FALSE]

NoRequest ==
    [path |-> <<>>, t1 |-> 0, app |-> None, seen |-> <<>>, exc |-> "none",
     validated |-> FALSE, cached |-> FALSE, expired |-> FALSE, lookups |-> 0,
     built |-> 0]

Init ==
    /\ instances = << >>
    /\ store = [k \in StoreKeys |-> IF k = Tenant2 THEN "v1" ELSE "none"]
    /\ now = 0
    /\ nbuilds = 0
    /\ last = NoRequest
    /\ probe = NoProbe
    /\ threads = EmptyBag

\* one request handled by Dispatcher.__call__ from start to end; the clock
\* may advance by dt between the two readings of utcnow()
Request(path, dt, fault) ==
    /\ now + dt <= MaxTime
    /\ LET r == Dispatcher_call(instances, store, path, now, now + dt, fault,
                                nbuilds + 1)
       IN  /\ nbuilds + r.built <= MaxBuilds
           /\ instances' = r.instances
           /\ nbuilds' = nbuilds + r.built
           /\ last' = Last(path, now, r)
    /\ now' = now + dt
    /\ UNCHANGED <<store, probe, threads>>

\* the clock advances between requests
Tick ==
    /\ now < MaxTime
    /\ now' = now + 1
    /\ UNCHANGED <<instances, store, nbuilds, last, probe, threads>>

\* the collection is written by other programs
StoreWrite(k, v) ==
    /\ store[k] # v
    /\ store' = [store EXCEPT ![k] = v]
    /\ UNCHANGED <<instances, now, nbuilds, last, probe, threads>>

Next ==
    \/ \E path \in Paths, dt \in 0..1, fault \in Faults :
          Request(path, dt, fault)
    \/ Tick
    \/ \E k \in WrittenKeys : \E v \in StoreVals(k) : StoreWrite(k, v)

Spec == Init /\ [][Next]_vars

\* ------------------------------------------- requests handled in threads
\* any entry returned, whatever the name
GetInstance_Any(inst, name) ==
    IF DOMAIN inst # {} THEN inst[CHOOSE k \in DOMAIN inst : TRUE]
    ELSE NoInstance

\* self.instances.get(name)
GetInstance(inst, name) ==
    IF name \in DOMAIN inst THEN inst[name] ELSE NoInstance

\* a request ends: get_application returns app or raises exc after so many
\* find_one calls and builds, __call__ pops the path for an application and
\* calls default_app for None; last is that request (the time it started is
\* not kept)
ConcEnd(path, app, exc, validated, cached, expired, lookups, built) ==
    last' = Last(path, 0,
                 [app |-> IF exc = "none" /\ app = None THEN default_app
                          ELSE app,
                  seen |-> IF exc = "none" /\ app # None
                           THEN pop_path_info(path) ELSE path,
                  exc |-> exc, validated |-> validated, cached |-> cached,
                  expired |-> expired, lookups |-> lookups, built |-> built])

\* the request th of a thread goes on as the request to
Step(th, to) == (threads (-) SetToBag({th})) (+) SetToBag({to})

\* lines 65-89 in a free thread: the first segment is peeked, tested, looked
\* up in the cache and the age of the instance found is tested
ConcStart(path) ==
    /\ BagCardinality(threads) < NThreads
    /\ LET name == peek_path_info(path)
           instance == GetInstance(instances, name)
           cached == instance # NoInstance
           expired == cached /\ Expired(instance, path, now)
           Ends(app, validated) ==
               /\ ConcEnd(path, app, "none", validated, cached, FALSE, 0, 0)
               /\ threads' = threads
           Goes(pc) ==
               /\ threads' = threads (+)
                      SetToBag({Thread(pc, path, NoInstance, cached, expired)})
               /\ last' = last
       IN  IF name = <<>> THEN Ends(None, FALSE)
           ELSE IF is_api(name) THEN Ends(api, FALSE)
           ELSE IF ~name_pattern(name) THEN Ends(BadRequest, TRUE)
           ELSE IF expired THEN Goes("del")
           ELSE IF ~cached THEN Goes("fetch")
           ELSE Ends(instance.app, TRUE)
    /\ UNCHANGED <<instances, store, now, nbuilds, probe>>

\* line 87: del self.instances[name], a KeyError when the key is gone
ConcDel(th) ==
    /\ th.pc = "del"
    /\ LET name == peek_path_info(th.path)
       IN  IF name \in DOMAIN instances
           THEN /\ instances' = DelInstance(instances, name)
                /\ threads' = Step(th, [th EXCEPT !.pc = "fetch"])
                /\ last' = last
           ELSE /\ instances' = instances
                /\ threads' = threads (-) SetToBag({th})
                /\ ConcEnd(th.path, None, "KeyError", TRUE, th.cached,
                           th.expired, 0, 0)
    /\ UNCHANGED <<store, now, nbuilds, probe>>

\* lines 90-96: __get_app_from_db and the new instance with its utcnow()
ConcFetch(th, fault) ==
    /\ th.pc = "fetch"
    /\ LET name == peek_path_info(th.path)
           got == get_app_from_db(store, name, fault, nbuilds + 1)
       IN  /\ nbuilds + got.built <= MaxBuilds
           /\ nbuilds' = nbuilds + got.built
           /\ IF got.exc = "none" /\ got.app # None
              THEN /\ threads' = Step(th,
                          [th EXCEPT !.pc = "install",
                              !.instance = [app |-> got.app, added |-> now]])
                   /\ last' = last
              ELSE /\ threads' = threads (-) SetToBag({th})
                   /\ ConcEnd(th.path, None, got.exc, TRUE, th.cached,
                              th.expired, 1, 0)
    /\ UNCHANGED <<instances, store, now, probe>>

\* line 98: self.instances[name] = instance, and the request is forwarded
ConcInstall(th) ==
    /\ th.pc = "install"
    /\ instances' = SetInstance(instances, peek_path_info(th.path),
                                th.instance)
    /\ threads' = threads (-) SetToBag({th})
    /\ ConcEnd(th.path, th.instance.app, "none", TRUE, th.cached, th.expired,
               1, 1)
    /\ UNCHANGED <<store, now, nbuilds, probe>>

\* the threads of the server; the failures of find_one and of the
\* deserializer are those of a request handled alone
ConcNext ==
    \/ \E path \in ConcPaths : ConcStart(path)
    \/ \E th \in BagToSet(threads) : ConcDel(th)
    \/ \E th \in BagToSet(threads) : ConcFetch(th, "ok")
    \/ \E th \in BagToSet(threads) : ConcInstall(th)
    \/ Tick
    \/ \E v \in StoreVals(Tenant1) : StoreWrite(Tenant1, v)

ConcSpec == Init /\ [][ConcNext]_vars

\* ------------------------------- a record whose uid ends with a newline
NewlineName == <<"d", "\n">>

\* the dispatcher as constructed, the collection holding one more record
NewlineInit ==
    /\ instances = << >>
    /\ store = [k \in StoreKeys \cup {NewlineName} |->
                    IF k \in {Tenant2, NewlineName} THEN "v1" ELSE "none"]
    /\ now = 0
    /\ nbuilds = 0
    /\ last = NoRequest
    /\ probe = NoProbe
    /\ threads = EmptyBag

NewlineSpec == NewlineInit /\ [][Next]_vars

\* ------------------------------------------------ the path tests alone
\* any path, no test tried yet, the dispatcher as constructed
ProbeInit ==
    /\ instances = << >>
    /\ store = [k \in StoreKeys |-> IF k = Tenant2 THEN "v1" ELSE "none"]
    /\ now = 0
    /\ nbuilds = 0
    /\ last = NoRequest
    /\ probe \in {[input |-> p, test |-> "none", verdict |-> FALSE] :
                    p \in ProbePaths}
    /\ threads = EmptyBag

\* Dispatcher.__is_main_page on the path
ProbeMainPage ==
    /\ probe.test = "none"
    /\ probe' = [probe EXCEPT !.test = "is_main_page",
                              !.verdict = is_main_page(probe.input)]
    /\ UNCHANGED <<instances, store, now, nbuilds, last, threads>>

\* re.match(name_pattern, name) on the first segment of the path
ProbeNamePattern ==
    /\ probe.test = "none"
    /\ probe' = [probe EXCEPT !.test = "name_pattern",
                     !.verdict = name_pattern(peek_path_info(probe.input))]
    /\ UNCHANGED <<instances, store, now, nbuilds, last, threads>>

ProbeNext == ProbeMainPage \/ ProbeNamePattern

ProbeSpec == ProbeInit /\ [][ProbeNext]_vars

TypeOK ==
    /\ now \in 0..MaxTime
    /\ nbuilds \in 0..MaxBuilds
    /\ \A k \in DOMAIN instances : instances[k].added \in 0..MaxTime

\* ------------------------------------------------------- terms of claims
\* the path after removing the leading slashes and the tenant segment
RestOfPath(path) ==
    LET s == LStrip(path)
        k == FindSlash(s, 1)
    IN  IF k = 0 THEN <<>> ELSE SubSeq(s, k, Len(s))

\* root page: the path after the tenant segment is empty or a bare '/'
RootPage(path) == RestOfPath(path) \in {<<>>, <<"/">>}

\* a non-empty segment the default allow-pattern rejects: some character is
\* outside the class, a newline that ends a longer segment excepted
FailsPattern(name) ==
    /\ name # <<>>
    /\ \E k \in 1..Len(name) :
          /\ name[k] \notin AllowedChars
          /\ ~(k = Len(name) /\ k >= 2 /\ name[k] = "\n")

\* a name that is resolved through the cache: accepted and not reserved
TenantName(name) == name # <<>> /\ name # ApiName /\ ~FailsPattern(name)

\* the collection holds an application definition under this uid
HasDefinition(st, name) == name \in DOMAIN st /\ st[name] = "v1"

\* the outcomes of a request
NotFoundResponse == last.exc = "none" /\ last.app = default_app
BadRequestResponse == last.exc = "none" /\ last.app = BadRequest
Forwarded == last.exc = "none" /\ last.app.kind \in {"dash", "api"}

\* this step is Dispatcher.__call__ handling a request for path under fault
Handled(path, fault) == Request(path, now' - now, fault)

\* ------------------------------------------------------------------- C1
\* C1: a request for an accepted, non-reserved identifier that is not cached,
\* whose definition the store returns and builds, builds exactly one handler,
\* installs it under the identifier and is served by it; a request for a
\* cached identifier within the retention period on a non-root path is
\* served by the cached handler, with no build, no store lookup and the
\* cache unchanged.
C1_FirstRequest(path) ==
    LET name == peek_path_info(path)
    IN  (/\ TenantName(name)
         /\ name \notin DOMAIN instances
         /\ HasDefinition(store, name)
         /\ Handled(path, "ok"))
        => /\ nbuilds' = nbuilds + 1
           /\ last'.built = 1 /\ last'.lookups = 1
           /\ name \in DOMAIN instances'
           /\ instances'[name].app = last'.app
           /\ last'.app.kind = "dash" /\ last'.app.uid = name
           /\ \A k \in DOMAIN instances : instances[k].app # last'.app
           /\ \A k \in DOMAIN instances :
                  k \in DOMAIN instances' /\ instances'[k] = instances[k]

C1_SecondRequest(path) ==
    LET name == peek_path_info(path)
    IN  (/\ name \in DOMAIN instances
         /\ ~RootPage(path)
         /\ now - instances[name].added <= retention_period
         /\ \E fault \in Faults : Handled(path, fault))
        => /\ last'.app = instances[name].app
           /\ last'.exc = "none"
           /\ last'.built = 0 /\ last'.lookups = 0
           /\ nbuilds' = nbuilds
           /\ instances' = instances

C1_BuildOnceThenReuse ==
    [][C1_FirstRequest(last'.path) /\ C1_SecondRequest(last'.path)]_vars

\* a sub-resource request served from the cache within the retention period
C1_Witness ==
    /\ last.path = Sl \o Tenant1 \o Sl \o <<"x">>
    /\ last.cached /\ last.built = 0 /\ last.lookups = 0
    /\ nbuilds = 1
    /\ Tenant1 \in DOMAIN instances
    /\ last.app = instances[Tenant1].app
    /\ last.t1 - instances[Tenant1].added = retention_period

\* ------------------------------------------------------------------- C2
\* C2: for a cached tenant whose definition is in the store, a root-page
\* request rebuilds the handler (new handler, installedAt read again) exactly
\* when now - installedAt > retention period, otherwise it is a cache hit; a
\* non-root request is served by the cached handler and leaves the entry as
\* it is.
C2_Request(path) ==
    LET name == peek_path_info(path)
    IN  (/\ name \in DOMAIN instances
         /\ HasDefinition(store, name)
         /\ Handled(path, "ok"))
        => IF RootPage(path)
           THEN IF now - instances[name].added > retention_period
                THEN /\ last'.built = 1
                     /\ name \in DOMAIN instances'
                     /\ instances'[name].app = last'.app
                     /\ instances'[name].app # instances[name].app
                     /\ instances'[name].added = now'
                ELSE /\ last'.built = 0
                     /\ last'.app = instances[name].app
                     /\ instances' = instances
           ELSE /\ last'.built = 0
                /\ last'.app = instances[name].app
                /\ instances' = instances

C2_RebuildOnExpiredRootOnly == [][C2_Request(last'.path)]_vars

\* ------------------------------------------------------------------- C3
\* C3: a sub-resource request (the path after the tenant segment is neither
\* empty nor '/') for a cached tenant never removes or replaces the tenant's
\* cache entry, whatever its age.
C3_Request(path) ==
    LET name == peek_path_info(path)
    IN  (/\ name \in DOMAIN instances
         /\ ~RootPage(path)
         /\ \E fault \in Faults : Handled(path, fault))
        => /\ name \in DOMAIN instances'
           /\ instances'[name] = instances[name]

C3_SubResourceKeepsEntry == [][C3_Request(last'.path)]_vars

\* ------------------------------------------------------------------- C4
\* C4 as stated: every first segment that fails the allow-pattern, the empty
\* one included, gets a bad-request response, with the cache unchanged and
\* the store not consulted.
C4_Untouched ==
    /\ instances' = instances
    /\ nbuilds' = nbuilds
    /\ last'.lookups = 0 /\ last'.built = 0

C4_Original(path) ==
    LET name == peek_path_info(path)
    IN  (/\ name = <<>> \/ FailsPattern(name)
         /\ \E fault \in Faults : Handled(path, fault))
        => /\ last'.exc = "none" /\ last'.app = BadRequest
           /\ C4_Untouched

C4_RejectedIsBadRequest == [][C4_Original(last'.path)]_vars

\* C4 amended: every non-empty first segment that the allow-pattern rejects
\* gets a bad-request response and an empty first segment a not-found
\* response, in both cases with the cache unchanged and the store not
\* consulted.
C4_Amended(path) ==
    LET name == peek_path_info(path)
    IN  (/\ name = <<>> \/ FailsPattern(name)
         /\ \E fault \in Faults : Handled(path, fault))
        => /\ last'.exc = "none"
           /\ last'.app = IF name = <<>> THEN default_app ELSE BadRequest
           /\ last'.validated = (name # <<>>)
           /\ C4_Untouched

C4_RejectedNonEmptyIsBadRequest == [][C4_Amended(last'.path)]_vars

\* a rejected segment answered with bad-request while the cache holds an entry
C4_Witness ==
    /\ peek_path_info(last.path) = <<"?">>
    /\ BadRequestResponse
    /\ last.lookups = 0
    /\ Tenant1 \in DOMAIN instances

\* ------------------------------------------------------------------- C5
\* C5: whenever a request ends in a not-found or a bad-request response, the
\* responder is called with the original path, no segment removed.
C5_ErrorResponsesKeepPath ==
    (NotFoundResponse \/ BadRequestResponse) => last.seen = last.path

\* ------------------------------------------------------------------- C6
\* C6: when the store lookup fails during a request for a valid tenant
\* identifier, the request ends with a not-found response and no failure
\* reaches the caller.
C6_Request(path) ==
    (/\ TenantName(peek_path_info(path))
     /\ Handled(path, "db")
     /\ last'.lookups = 1)
    => last'.exc = "none" /\ last'.app = default_app

C6_StoreErrorIsNotFound == [][C6_Request(last'.path)]_vars

\* ------------------------------------------------------------------- C7
\* C7 as stated: every request that ends in a not-found response leaves the
\* cache exactly as it was.
C7_EndsNotFound(path) ==
    /\ last'.exc = "none" /\ last'.app = default_app
    /\ \E fault \in Faults : Handled(path, fault)

C7_Original(path) == C7_EndsNotFound(path) => instances' = instances

C7_NotFoundKeepsCache == [][C7_Original(last'.path)]_vars

\* C7 amended: a request that ends in a not-found response leaves the cache
\* as it was or removes the entry of the requested tenant and nothing else;
\* it removes the entry only when the entry is past the retention period,
\* and never when the first path segment is empty.
C7_Amended(path) ==
    LET name == peek_path_info(path)
    IN  C7_EndsNotFound(path)
        => \/ instances' = instances
           \/ /\ name \in DOMAIN instances
              /\ now - instances[name].added > retention_period
              /\ instances' =
                     [k \in DOMAIN instances \ {name} |-> instances[k]]

C7_NotFoundRemovesAtMostExpired == [][C7_Amended(last'.path)]_vars

\* a not-found response that removed the expired entry of Tenant1 and kept
\* the entry of Tenant2
C7_Witness ==
    /\ NotFoundResponse
    /\ peek_path_info(last.path) = Tenant1
    /\ last.cached /\ last.expired /\ last.lookups = 1
    /\ Tenant1 \notin DOMAIN instances
    /\ Tenant2 \in DOMAIN instances

\* ------------------------------------------------------------------- C8
\* C8: a request for an accepted, non-reserved identifier that is not cached
\* and has no stored definition (no record, or a record without one) gets a
\* not-found response, and the cache has no entry for it afterwards.
C8_Request(path) ==
    LET name == peek_path_info(path)
    IN  (/\ TenantName(name)
         /\ name \notin DOMAIN instances
         /\ ~HasDefinition(store, name)
         /\ Handled(path, "ok") \/ Handled(path, "build"))
        => /\ last'.exc = "none" /\ last'.app = default_app
           /\ last'.built = 0
           /\ name \notin DOMAIN instances'

C8_NoDefinitionIsNotFound == [][C8_Request(last'.path)]_vars

\* a not-found response for a record that has no 'dashapp'
C8_Witness ==
    /\ NotFoundResponse
    /\ peek_path_info(last.path) = Tenant1
    /\ ~last.cached /\ last.lookups = 1
    /\ store[Tenant1] = "nodashapp"
    /\ Tenant1 \notin DOMAIN instances

\* ------------------------------------------------------------------- C9
\* C9: every request whose first segment is 'api' is forwarded to the fixed
\* API handler: the name is not validated, the store is not consulted even
\* when it holds a definition under 'api', and the cache is unchanged.
C9_Request(path) ==
    (/\ peek_path_info(path) = ApiName
     /\ \E fault \in Faults : Handled(path, fault))
    => /\ last'.exc = "none" /\ last'.app = api
       /\ ~last'.validated
       /\ last'.lookups = 0 /\ last'.built = 0
       /\ instances' = instances
       /\ ApiName \notin DOMAIN instances'

C9_ApiIsFixedHandler == [][C9_Request(last'.path)]_vars

\* an 'api' request answered while the store holds a definition under 'api'
\* and the cache holds an entry
C9_Witness ==
    /\ peek_path_info(last.path) = ApiName
    /\ last.app = api
    /\ store[ApiName] = "v1"
    /\ Tenant1 \in DOMAIN instances

\* ------------------------------------------------------------------ C10
\* the path seen is the original one without its leading slashes and its
\* first segment, everything from the following slash on kept
StripsOneSegment(orig, seen) ==
    \E i \in 0..Len(orig) : \E j \in (i + 1)..Len(orig) :
        /\ \A k \in 1..i : orig[k] = "/"
        /\ \A k \in (i + 1)..j : orig[k] # "/"
        /\ j = Len(orig) \/ orig[j + 1] = "/"
        /\ seen = SubSeq(orig, j + 1, Len(orig))

\* C10: whenever a request is forwarded to a resolved handler, the path the
\* handler sees is the original path with exactly one leading segment
\* removed and all following segments kept in order.
C10_ForwardStripsOneSegment ==
    Forwarded => StripsOneSegment(last.path, last.seen)

\* /d/x/y forwarded as /x/y
C10_Witness ==
    /\ Forwarded
    /\ last.path = Sl \o Tenant1 \o Sl \o <<"x">> \o Sl \o <<"y">>
    /\ last.seen = Sl \o <<"x">> \o Sl \o <<"y">>
    /\ last.app.uid = Tenant1

\* ------------------------------------------------------------------ C13
\* C13: a cache hit (the entry is present and the request is non-root or
\* within the retention period) returns the cached handler and leaves the
\* whole cache unchanged: installedAt is not refreshed and the handler is
\* not replaced.
C13_Request(path) ==
    LET name == peek_path_info(path)
    IN  (/\ name \in DOMAIN instances
         /\ \/ ~RootPage(path)
            \/ now - instances[name].added <= retention_period
         /\ \E fault \in Faults : Handled(path, fault))
        => /\ last'.exc = "none"
           /\ last'.app = instances[name].app
           /\ instances' = instances

C13_HitLeavesCache == [][C13_Request(last'.path)]_vars

\* ------------------------------------------------------------------ C17
\* C17: when building the handler from a fetched definition fails, the
\* failure leaves the request as an unhandled failure (no not-found and no
\* bad-request response), and the cache has no entry for the tenant
\* afterwards.
C17_Request(path) ==
    LET name == peek_path_info(path)
    IN  (/\ TenantName(name)
         /\ HasDefinition(store, name)
         /\ last'.lookups = 1
         /\ Handled(path, "build"))
        => /\ last'.exc = "DeserializerError"
           /\ last'.app = None
           /\ last'.built = 0 /\ nbuilds' = nbuilds
           /\ name \notin DOMAIN instances'

C17_BuildFailurePropagates == [][C17_Request(last'.path)]_vars

\* a failed rebuild of an expired entry: the entry is gone
C17_Witness ==
    /\ last.exc = "DeserializerError"
    /\ peek_path_info(last.path) = Tenant1
    /\ last.cached /\ last.expired
    /\ Tenant1 \notin DOMAIN instances

\* ------------------------------------------------------------------ C15
\* the segment is not empty and all its characters are in the class
FullMatch(name) ==
    name # <<>> /\ \A k \in 1..Len(name) : name[k] \in AllowedChars

\* C15: in every reachable state no key of the instance cache is the
\* reserved identifier 'api', and every key is a non-empty string that
\* passes the identifier validator (it fully matches the allow-pattern).
C15_KeysAreValidTenants ==
    \A k \in DOMAIN instances : k # ApiName /\ FullMatch(k)

\* ------------------------------------------------------------------ C16
\* C16: for every request path (a slash, a tenant segment, and what
\* follows), __is_main_page returns true if and only if the path after the
\* tenant segment is empty or a bare '/'.
C16_MainPageIsRootPage ==
    (/\ probe.test = "is_main_page"
     /\ probe.input # <<>> /\ Head(probe.input) = "/"
     /\ peek_path_info(probe.input) # <<>>)
    => probe.verdict = RootPage(probe.input)

\* ------------------------------------------------------------------ C18
\* C18: with the default allow-pattern the validator accepts a segment if
\* and only if it is non-empty and each character is an ASCII letter, a
\* digit, '_' or '-'; allowed characters followed by a newline are rejected.
C18_ValidatorIsFullMatch ==
    probe.test = "name_pattern"
        => probe.verdict = FullMatch(peek_path_info(probe.input))

\* ------------------------------------------------- requests in threads
\* the tenant segment of the last request that ended
LastName == IF last.path = <<>> THEN <<>> ELSE peek_path_info(last.path)

\* a thread is handling a request for this tenant
InFlight(name) ==
    \E th \in BagToSet(threads) : peek_path_info(th.path) = name

\* ------------------------------------------------------------------ C11
\* C11: under every interleaving of concurrent requests for the same tenant
\* that is not cached when they read the cache and has a stored definition,
\* each request is forwarded to a handler built for that tenant and none
\* fails; once all of them have finished, the cache holds one entry for the
\* tenant, the one written last.
C11_RaceLastWriterWins ==
    (LastName = Tenant2 /\ ~last.cached)
    => /\ last.exc = "none"
       /\ last.app.kind = "dash" /\ last.app.uid = Tenant2
       /\ last.built = 1
       /\ ~InFlight(Tenant2)
          => /\ Tenant2 \in DOMAIN instances
             /\ instances[Tenant2].app = last.app

\* two requests found no entry and both built; the handler built first was
\* written last and is the one the cache keeps
C11_Witness ==
    /\ now = 0 /\ threads = EmptyBag
    /\ nbuilds = 2
    /\ DOMAIN instances = {Tenant2}
    /\ LastName = Tenant2 /\ ~last.cached
    /\ last.app.serial = 1
    /\ instances[Tenant2].app = last.app

\* ------------------------------------------------------------------ C12
\* C12: under every interleaving of concurrent root-page requests for the
\* same cached tenant whose entry is past its retention period, no request
\* fails, and once all of them have finished the cache holds one entry for
\* the tenant.
C12_ExpiredRaceCompletes ==
    (LastName = Tenant2 /\ RootPage(last.path) /\ last.cached /\ last.expired)
    => /\ last.exc = "none"
       /\ ~InFlight(Tenant2) => Tenant2 \in DOMAIN instances

\* ------------------------------------------------------------------ C14
\* C14: with a non-decreasing clock, under every interleaving of concurrent
\* requests, an entry that replaces the entry of a tenant has an installedAt
\* that is not less than that of the entry it replaces.
C14_Step ==
    \A name \in DOMAIN instances \cap DOMAIN instances' :
        instances'[name].added >= instances[name].added

C14_InstalledAtNeverDecreases == [][C14_Step]_vars

\* ------------------------------------------------------------------ C19
\* C19: in every reachable state and under every interleaving of concurrent
\* requests for different tenants, the handler stored under a cache key was
\* built from the definition the store held for that same key, and a request
\* whose first segment is a tenant identifier is only ever forwarded to a
\* handler built for that identifier.
C19_TenantIsolation ==
    /\ \A k \in DOMAIN instances :
          /\ instances[k].app.kind = "dash"
          /\ instances[k].app.uid = k
          /\ instances[k].app.defn = <<k, "v1">>
    /\ \A th \in BagToSet(threads) :
          th.pc = "install" => th.instance.app.uid = peek_path_info(th.path)
    /\ (TenantName(LastName) /\ Forwarded)
       => /\ last.app.kind = "dash"
          /\ last.app.uid = LastName
          /\ last.app.defn = <<LastName, "v1">>

\* a request for one tenant is forwarded to the handler just built and
\* cached for it while a thread holds a handler built for the other tenant
C19_Witness ==
    /\ DOMAIN instances = {Tenant1}
    /\ LastName = Tenant1 /\ Forwarded /\ last.built = 1
    /\ last.app = instances[Tenant1].app
    /\ \E th \in BagToSet(threads) :
          th.pc = "install" /\ peek_path_info(th.path) = Tenant2

====
